---- MODULE Spec2Model ----
(***************************************************************************)
(* La-Math-ex: the InkML trace parser InkProcessor.read_inkml_file of      *)
(* src/src/data/ink_processor.py, as a state machine over one call.        *)
(*                                                                         *)
(* A Python str is a sequence of one-character strings.  An optional       *)
(* value is None or Str(s).  A float is modelled by the integer that the   *)
(* digits of its literal denote (the alphabet has no sign, point or        *)
(* exponent).                                                              *)
(***************************************************************************)
EXTENDS Integers, Sequences, FiniteSets, TLC

\* Largest number of child elements of the document root.
MaxElems == 3

----------------------------------------------------------------------------
(* Python values and built-ins *)

None == <<"None">>
Str(s) == <<"str", s>>
IsNone(v) == Len(v) = 1
StrOf(v) == v[2]

Digits == {"0", "1", "2", "3", "4", "5", "6", "7", "8", "9"}
Whitespace == {" ", "\n", "\t"}

DigitVal(c) ==
    CASE c = "0" -> 0 [] c = "1" -> 1 [] c = "2" -> 2 [] c = "3" -> 3
      [] c = "4" -> 4 [] c = "5" -> 5 [] c = "6" -> 6 [] c = "7" -> 7
      [] c = "8" -> 8 [] c = "9" -> 9

\* str.split(sep) with a one-character separator: every occurrence of sep
\* ends a piece, empty pieces are kept, "" gives [""].
RECURSIVE split(_, _)
split(s, sep) ==
    IF \A i \in 1..Len(s) : s[i] # sep
    THEN <<s>>
    ELSE LET i == CHOOSE k \in 1..Len(s) :
                      s[k] = sep /\ \A j \in 1..(k - 1) : s[j] # sep
         IN  <<SubSeq(s, 1, i - 1)>> \o split(SubSeq(s, i + 1, Len(s)), sep)

\* str.strip(): float() ignores leading and trailing whitespace.
RECURSIVE strip(_)
strip(s) ==
    IF s = <<>> THEN s
    ELSE IF s[1] \in Whitespace THEN strip(Tail(s))
    ELSE IF s[Len(s)] \in Whitespace THEN strip(SubSeq(s, 1, Len(s) - 1))
    ELSE s

RECURSIVE DecimalValue(_)
DecimalValue(s) ==
    IF s = <<>> THEN 0
    ELSE 10 * DecimalValue(SubSeq(s, 1, Len(s) - 1)) + DigitVal(s[Len(s)])

\* float(tok) raises ValueError unless the stripped token is a literal.
FloatRaises(tok) ==
    LET s == strip(tok)
    IN  s = <<>> \/ \E i \in 1..Len(s) : s[i] \notin Digits

float(tok) == DecimalValue(strip(tok))

\* The tag left as it is.
removeprefix_absent(tag, prefix) == tag

\* str.removeprefix on a tag held as <<namespace part, local name>>.
removeprefix(tag, prefix) ==
    IF tag[1] = prefix THEN <<"", tag[2]>> ELSE tag

\* A dict store that keeps the value a key already has.
DictSetKeepFirst(d, key, value) ==
    [k \in (DOMAIN d) \cup {key} |->
        IF k \in DOMAIN d THEN d[k] ELSE value]

\* d[key] = value on a dict.
DictSet(d, key, value) ==
    [k \in (DOMAIN d) \cup {key} |-> IF k = key THEN value ELSE d[k]]

EmptyDict == [k \in {} |-> None]

----------------------------------------------------------------------------
(* The body of the loop over the points of one trace, lines 75-82 *)

InkMLPrefix == "{http://www.w3.org/2003/InkML}"

\* One pass of the try block on one point.  lists = <<stroke_x, stroke_y,
\* stroke_t>>.  The unpacking of line 77 raises unless there are exactly
\* three pieces; each append happens before the next float() is tried.
PointBody(lists, point) ==
    LET toks == split(point, " ")
    IN  IF Len(toks) # 3 THEN lists
        ELSE IF FloatRaises(toks[1]) THEN lists
        ELSE LET l1 == <<Append(lists[1], float(toks[1])), lists[2], lists[3]>>
             IN  IF FloatRaises(toks[2]) THEN l1
                 ELSE LET l2 == <<l1[1], Append(l1[2], float(toks[2])), l1[3]>>
                      IN  IF FloatRaises(toks[3]) THEN l2
                          ELSE <<l2[1], l2[2], Append(l2[3], float(toks[3]))>>

RECURSIVE PointLoop(_, _)
PointLoop(lists, points) ==
    IF points = <<>> THEN lists
    ELSE PointLoop(PointBody(lists, Head(points)), Tail(points))

\* if stroke_x and stroke_y and stroke_t, line 84
NonEmptyLists(lists) ==
    lists[1] # <<>> /\ lists[2] # <<>> /\ lists[3] # <<>>

\* np.array of three lists is a 3 x n table only when they are equally long.
Rectangular(lists) ==
    Len(lists[1]) = Len(lists[2]) /\ Len(lists[2]) = Len(lists[3])

----------------------------------------------------------------------------
(* Source documents *)

Join2(a, b) == a \o <<",">> \o b

P123 == <<"1", " ", "2", " ", "3">>
P456 == <<"4", " ", "5", " ", "6">>
P1020 == <<"1", "0", " ", "2", "0", " ", "7">>
Bad == <<"b", "a", "d">>
P1b3 == <<"1", " ", "b", " ", "3">>
P12b == <<"1", " ", "2", " ", "b">>
P12 == <<"1", " ", "2">>

TraceTextSamples ==
    { Join2(P123, P456),
      Join2(Join2(P123, Bad), P456),
      Join2(P123, <<" ">> \o P456),
      Join2(<<"\n">> \o P1020, P456 \o <<"\n">>),
      Join2(P1b3, P456),
      Join2(P12b, P12),
      Bad }

\* ElementTree gives text None, never "", to an element without text.
TraceElements ==
    { [tag |-> <<InkMLPrefix, "trace">>, type |-> None, text |-> tx] :
        tx \in {None} \cup {Str(t) : t \in TraceTextSamples} }

\* <<type attribute, text>> of the annotation elements
AnnotationSamples ==
    { <<Str(<<"label">>), Str(<<"a">>)>>,
      <<Str(<<"label">>), Str(<<"b">>)>>,
      <<Str(<<"sampleId">>), Str(<<"a">>)>>,
      <<Str(<<"label">>), None>>,
      <<None, Str(<<"a">>)>> }

AnnotationElements ==
    { [tag |-> <<InkMLPrefix, "annotation">>, type |-> a[1], text |-> a[2]] :
        a \in AnnotationSamples }

OtherElements ==
    { [tag |-> <<InkMLPrefix, "traceFormat">>, type |-> None, text |-> None],
      [tag |-> <<"", "trace">>, type |-> None, text |-> Str(P123)],
      [tag |-> <<"", "annotation">>, type |-> Str(<<"label">>),
       text |-> Str(<<"b">>)],
      [tag |-> <<"{urn:other}", "trace">>, type |-> None,
       text |-> Str(P456)] }

Elements == TraceElements \cup AnnotationElements \cup OtherElements

Roots == UNION { [1..n -> Elements] : n \in 0..MaxElems }

\* What the path names: nothing, a file that is not well-formed markup, or
\* a well-formed document with the children of its root.
Files ==
    { [exists |-> FALSE, wellformed |-> FALSE, children |-> <<>>],
      [exists |-> TRUE, wellformed |-> FALSE, children |-> <<>>] }
    \cup { [exists |-> TRUE, wellformed |-> TRUE, children |-> r] :
             r \in Roots }

----------------------------------------------------------------------------
(* State of one call of read_inkml_file(filename) *)

VARIABLES
    file,         \* what filename names on disk
    pc,           \* position in the function
    opened,       \* TRUE once open(filename) has been attempted
    root,         \* children of the parsed root, in document order
    idx,          \* index in root of the element the for loop is at
    lists,        \* <<stroke_x, stroke_y, stroke_t>> of the current trace
    strokes,      \* the list strokes
    annotations,  \* the dict annotations
    raised,       \* "" or the exception that left the function
    returned      \* <<>> or <<the Ink returned>>

\* The process around the running call
VARIABLES
    numpy,        \* what np.array does with lists of different lengths
    cur,          \* which call the variables above belong to
    saved         \* <<>> or <<the suspended frame of the other call>>

\* The variables of one call of read_inkml_file.
frame == <<file, pc, opened, root, idx, lists, strokes, annotations,
           raised, returned>>

\* The caller of the geometry operations of InkProcessor
VARIABLES
    heap,         \* the objects of the process, an address is an index
    ink,          \* address of the Ink the caller passes
    target_size,  \* the target_size the caller passes
    called,       \* "" or the operation the caller has called
    result        \* what the operation returned

geometry == <<heap, ink, target_size, called, result>>

\* The callers of Config
VARIABLES
    instances,    \* address of self._config of every Config made so far
    last,         \* <<>> or the last call on a Config and how it ended
    steps         \* number of calls made so far

configs == <<instances, last, steps>>

\* The caller of MathOCRModel
VARIABLES
    images,        \* the images the caller passes
    batch_size,    \* the batch_size the caller passes
    ground_truth,  \* the ground_truth the caller passes
    outcome        \* <<>> or the call made and how it ended

ocr == <<images, batch_size, ground_truth, outcome>>

\* The callers of DataDownloader.download_mathwriting_dataset
VARIABLES
    disk,          \* the data directory: dataset_dir and archive_path
    download,      \* the call under way or ended
    downloads,     \* number of calls started so far
    completed      \* TRUE once a call has downloaded and extracted

downloader == <<disk, download, downloads, completed>>

\* The script of the drawing pad (strokes of the script is padStrokes here)
VARIABLES
    isDrawing,     \* let isDrawing
    padStrokes,    \* let strokes
    currentStroke, \* let currentStroke
    events         \* the mouse events the canvas has delivered so far

pad == <<isDrawing, padStrokes, currentStroke, events>>

\* The other components of the package.
components == <<configs, ocr, downloader, pad>>

\* What no step of read_inkml_file touches.
outside == <<numpy, cur, saved, geometry, components>>

vars == <<frame, outside>>

Ink(s, a) == [strokes |-> s, annotations |-> a]

\* The path check left out.
os_path_exists_skipped == TRUE

\* os.path.exists(filename), line 53
os_path_exists == file.exists

\* The classes an except clause for each exception class catches.
Mro(e) ==
    CASE e = "FileNotFoundError" -> {"FileNotFoundError", "OSError", "Exception"}
      [] e = "ValueError" -> {"ValueError", "Exception"}
      [] e = "ParseError" -> {"ParseError", "SyntaxError", "Exception"}
      [] e = "AttributeError" -> {"AttributeError", "Exception"}
      [] OTHER -> {}

\* The ParseError let through.
ExceptParseErrorMissing(e) == e

\* except ElementTree.ParseError as e: raise ValueError, lines 59-60
ExceptParseError(e) == IF e = "ParseError" THEN "ValueError" ELSE e

tag_name == removeprefix(root[idx].tag, InkMLPrefix)

\* No geometry operation is under way.
NoGeometry ==
    /\ heap = <<>>
    /\ ink = 0
    /\ target_size = <<>>
    /\ called = ""
    /\ result = <<>>

\* No Config is in use.
NoConfig ==
    /\ instances = <<>>
    /\ last = <<>>
    /\ steps = 0

\* No MathOCRModel is in use.
NoOcr ==
    /\ images = <<>>
    /\ batch_size = 0
    /\ ground_truth = <<>>
    /\ outcome = <<>>

\* No DataDownloader is in use: the data directory is empty.
NoDownloader ==
    /\ disk = [dataset_dir |-> "absent", archive |-> "absent"]
    /\ download = [pc |-> "idle", force_download |-> FALSE,
                   downloaded |-> FALSE, raised |-> ""]
    /\ downloads = 0
    /\ completed = FALSE

\* The drawing pad as the script sets it up, lines 118-120
NoPad ==
    /\ isDrawing = FALSE
    /\ padStrokes = <<>>
    /\ currentStroke = <<>>
    /\ events = <<>>

NoComponents == NoConfig /\ NoOcr /\ NoDownloader /\ NoPad

InLoop == pc = "for" /\ idx <= Len(root)

Init ==
    /\ file \in Files
    /\ pc = "start"
    /\ opened = FALSE
    /\ root = <<>>
    /\ idx = 1
    /\ lists = <<<<>>, <<>>, <<>>>>
    /\ strokes = <<>>
    /\ annotations = EmptyDict
    /\ raised = ""
    /\ returned = <<>>
    /\ numpy \in {"raises", "object"}
    /\ cur = 1
    /\ saved = <<>>
    /\ NoGeometry
    /\ NoComponents

Raise(e) ==
    /\ pc' = "raised"
    /\ raised' = e

\* lines 53-54
RaiseNotFound ==
    /\ pc = "start"
    /\ ~os_path_exists
    /\ Raise("FileNotFoundError")
    /\ UNCHANGED <<file, opened, root, idx, lists, strokes, annotations,
                   returned>>
    /\ UNCHANGED outside

\* lines 56-60, the content is not well-formed (open itself raises
\* FileNotFoundError when there is no file to open)
RaiseInvalidFormat ==
    /\ pc = "start"
    /\ os_path_exists
    /\ ~file.wellformed
    /\ opened' = TRUE
    /\ Raise(IF file.exists THEN ExceptParseError("ParseError")
                            ELSE "FileNotFoundError")
    /\ UNCHANGED <<file, root, idx, lists, strokes, annotations, returned>>
    /\ UNCHANGED outside

\* lines 56-63, the content is well-formed
ParseRoot ==
    /\ pc = "start"
    /\ os_path_exists
    /\ file.wellformed
    /\ opened' = TRUE
    /\ root' = file.children
    /\ idx' = 1
    /\ strokes' = <<>>
    /\ annotations' = EmptyDict
    /\ pc' = "for"
    /\ UNCHANGED <<file, lists, raised, returned>>
    /\ UNCHANGED outside

\* lines 68-69
Annotation ==
    /\ InLoop
    /\ tag_name = <<"", "annotation">>
    /\ annotations' = DictSet(annotations, root[idx].type, root[idx].text)
    /\ idx' = idx + 1
    /\ UNCHANGED <<file, pc, opened, root, lists, strokes, raised, returned>>
    /\ UNCHANGED outside

\* lines 71-82
TracePoints ==
    /\ InLoop
    /\ tag_name = <<"", "trace">>
    /\ ~IsNone(root[idx].text)
    /\ lists' = PointLoop(<<<<>>, <<>>, <<>>>>,
                          split(StrOf(root[idx].text), ","))
    /\ pc' = "if"
    /\ UNCHANGED <<file, opened, root, idx, strokes, annotations, raised,
                   returned>>
    /\ UNCHANGED outside

\* line 72 on an element without text: None has no split
TraceNoText ==
    /\ InLoop
    /\ tag_name = <<"", "trace">>
    /\ IsNone(root[idx].text)
    /\ Raise("AttributeError")
    /\ UNCHANGED <<file, opened, root, idx, lists, strokes, annotations,
                   returned>>
    /\ UNCHANGED outside

\* lines 84-85, three equally long non-empty lists
AppendStroke ==
    /\ pc = "if"
    /\ NonEmptyLists(lists)
    /\ Rectangular(lists)
    /\ strokes' = Append(strokes, lists)
    /\ idx' = idx + 1
    /\ pc' = "for"
    /\ UNCHANGED <<file, opened, root, lists, annotations, raised, returned>>
    /\ UNCHANGED outside

\* line 84, some list is empty
SkipStroke ==
    /\ pc = "if"
    /\ ~NonEmptyLists(lists)
    /\ idx' = idx + 1
    /\ pc' = "for"
    /\ UNCHANGED <<file, opened, root, lists, strokes, annotations, raised,
                   returned>>
    /\ UNCHANGED outside

\* line 85 on lists of different lengths, NumPy 1.24 and later: np.array
\* raises ValueError (inhomogeneous shape)
RaggedRaises ==
    /\ pc = "if"
    /\ numpy = "raises"
    /\ NonEmptyLists(lists)
    /\ ~Rectangular(lists)
    /\ Raise("ValueError")
    /\ UNCHANGED <<file, opened, root, idx, lists, strokes, annotations,
                   returned>>
    /\ UNCHANGED outside

\* line 85 on lists of different lengths, NumPy before 1.24: np.array
\* builds an object array of the three lists
RaggedObject ==
    /\ pc = "if"
    /\ numpy = "object"
    /\ NonEmptyLists(lists)
    /\ ~Rectangular(lists)
    /\ strokes' = Append(strokes, lists)
    /\ idx' = idx + 1
    /\ pc' = "for"
    /\ UNCHANGED <<file, opened, root, lists, annotations, raised, returned>>
    /\ UNCHANGED outside

\* lines 65-71, neither branch
OtherTag ==
    /\ InLoop
    /\ tag_name # <<"", "annotation">>
    /\ tag_name # <<"", "trace">>
    /\ idx' = idx + 1
    /\ UNCHANGED <<file, pc, opened, root, lists, strokes, annotations,
                   raised, returned>>
    /\ UNCHANGED outside

\* line 87
Return ==
    /\ pc = "for"
    /\ idx > Len(root)
    /\ returned' = <<Ink(strokes, annotations)>>
    /\ pc' = "done"
    /\ UNCHANGED <<file, opened, root, idx, lists, strokes, annotations,
                   raised>>
    /\ UNCHANGED outside

Next ==
    \/ RaiseNotFound
    \/ RaiseInvalidFormat
    \/ ParseRoot
    \/ Annotation
    \/ TracePoints
    \/ TraceNoText
    \/ AppendStroke
    \/ SkipStroke
    \/ RaggedRaises
    \/ RaggedObject
    \/ OtherTag
    \/ Return

Spec == Init /\ [][Next]_vars

----------------------------------------------------------------------------
(* Two calls of read_inkml_file in one process.  The variables of the      *)
(* call that is running are the ones above; the other call is suspended    *)
(* in saved, and the scheduler may switch between them at any step.        *)

\* Largest number of child elements of a root when two calls run.
MaxCallElems == 2

CallElements ==
    { [tag |-> <<InkMLPrefix, "trace">>, type |-> None,
       text |-> Str(Join2(P123, P456))],
      [tag |-> <<InkMLPrefix, "trace">>, type |-> None,
       text |-> Str(Join2(P1b3, P456))],
      [tag |-> <<InkMLPrefix, "trace">>, type |-> None, text |-> Str(Bad)],
      [tag |-> <<InkMLPrefix, "trace">>, type |-> None, text |-> None],
      [tag |-> <<InkMLPrefix, "annotation">>, type |-> Str(<<"label">>),
       text |-> Str(<<"a">>)],
      [tag |-> <<"", "annotation">>, type |-> Str(<<"label">>),
       text |-> Str(<<"b">>)],
      [tag |-> <<"{urn:other}", "trace">>, type |-> None,
       text |-> Str(P456)] }

CallRoots == UNION { [1..n -> CallElements] : n \in 0..MaxCallElems }

DocumentFile(r) == [exists |-> TRUE, wellformed |-> TRUE, children |-> r]

\* The same document with the InkML namespace taken off every element name.
Unqualified(f) ==
    [f EXCEPT !.children =
        [i \in 1..Len(f.children) |->
            [f.children[i] EXCEPT !.tag =
                IF @[1] = InkMLPrefix THEN <<"", @[2]>> ELSE @]]]

OtherFiles ==
    { [exists |-> FALSE, wellformed |-> FALSE, children |-> <<>>],
      [exists |-> TRUE, wellformed |-> FALSE, children |-> <<>>],
      DocumentFile(<<[tag |-> <<InkMLPrefix, "trace">>, type |-> None,
                        text |-> Str(P1020)],
                       [tag |-> <<InkMLPrefix, "annotation">>,
                        type |-> Str(<<"label">>), text |-> Str(<<"b">>)]>>) }

\* The frame of a call that has not started.
NewFrame(f) ==
    [file |-> f, pc |-> "start", opened |-> FALSE, root |-> <<>>, idx |-> 1,
     lists |-> <<<<>>, <<>>, <<>>>>, strokes |-> <<>>,
     annotations |-> EmptyDict, raised |-> "", returned |-> <<>>]

Running ==
    [file |-> file, pc |-> pc, opened |-> opened, root |-> root, idx |-> idx,
     lists |-> lists, strokes |-> strokes, annotations |-> annotations,
     raised |-> raised, returned |-> returned]

\* The names one call shares with another, were strokes a class attribute.
CallLocalButStrokes ==
    {"file", "pc", "opened", "root", "idx", "lists", "annotations",
     "raised", "returned"}

\* Every name read_inkml_file uses is a local of the call: a static method
\* without global, nonlocal or attribute state.
CallLocal ==
    {"file", "pc", "opened", "root", "idx", "lists", "strokes",
     "annotations", "raised", "returned"}

\* The value a name has once the other call runs.
Resume(name, mine, theirs) == IF name \in CallLocal THEN theirs ELSE mine

CallsInit ==
    /\ numpy \in {"raises", "object"}
    /\ cur = 1
    /\ \E r \in CallRoots :
          /\ file = DocumentFile(r)
          /\ \E g \in {Unqualified(DocumentFile(r))} \cup OtherFiles :
                saved = <<NewFrame(g)>>
    /\ pc = "start"
    /\ opened = FALSE
    /\ root = <<>>
    /\ idx = 1
    /\ lists = <<<<>>, <<>>, <<>>>>
    /\ strokes = <<>>
    /\ annotations = EmptyDict
    /\ raised = ""
    /\ returned = <<>>
    /\ NoGeometry
    /\ NoComponents

\* The scheduler suspends the running call and resumes the other one.
Switch ==
    /\ saved # <<>>
    /\ cur' = 3 - cur
    /\ saved' = <<Running>>
    /\ file' = Resume("file", file, saved[1].file)
    /\ pc' = Resume("pc", pc, saved[1].pc)
    /\ opened' = Resume("opened", opened, saved[1].opened)
    /\ root' = Resume("root", root, saved[1].root)
    /\ idx' = Resume("idx", idx, saved[1].idx)
    /\ lists' = Resume("lists", lists, saved[1].lists)
    /\ strokes' = Resume("strokes", strokes, saved[1].strokes)
    /\ annotations' = Resume("annotations", annotations, saved[1].annotations)
    /\ raised' = Resume("raised", raised, saved[1].raised)
    /\ returned' = Resume("returned", returned, saved[1].returned)
    /\ UNCHANGED <<numpy, geometry, components>>

CallsNext ==
    \/ RaiseNotFound
    \/ RaiseInvalidFormat
    \/ ParseRoot
    \/ Annotation
    \/ TracePoints
    \/ TraceNoText
    \/ AppendStroke
    \/ SkipStroke
    \/ RaggedRaises
    \/ RaggedObject
    \/ OtherTag
    \/ Return
    \/ Switch

CallsSpec == CallsInit /\ [][CallsNext]_vars

\* What a call leaves to its caller.
Outcome(f) == [raised |-> f.raised, returned |-> f.returned]

\* read_inkml_file run from start to end without interruption.
RECURSIVE ForAlone(_, _, _, _)
ForAlone(elems, s, a, np) ==
    IF elems = <<>> THEN [raised |-> "", returned |-> <<Ink(s, a)>>]
    ELSE LET e == Head(elems)
             name == removeprefix(e.tag, InkMLPrefix)
             l == PointLoop(<<<<>>, <<>>, <<>>>>, split(StrOf(e.text), ","))
         IN  IF name = <<"", "annotation">>
             THEN ForAlone(Tail(elems), s, DictSet(a, e.type, e.text), np)
             ELSE IF name # <<"", "trace">>
             THEN ForAlone(Tail(elems), s, a, np)
             ELSE IF IsNone(e.text)
             THEN [raised |-> "AttributeError", returned |-> <<>>]
             ELSE IF ~NonEmptyLists(l)
             THEN ForAlone(Tail(elems), s, a, np)
             ELSE IF Rectangular(l) \/ np = "object"
             THEN ForAlone(Tail(elems), Append(s, l), a, np)
             ELSE [raised |-> "ValueError", returned |-> <<>>]

ReadAlone(f, np) ==
    IF ~f.exists
    THEN [raised |-> "FileNotFoundError", returned |-> <<>>]
    ELSE IF ~f.wellformed
    THEN [raised |-> ExceptParseError("ParseError"), returned |-> <<>>]
    ELSE ForAlone(f.children, <<>>, EmptyDict, np)

----------------------------------------------------------------------------
(* Floating point.  A float is <<m, e>>, the number m * 2^e, with m odd or *)
(* <<0, 0>>.  Every operation gives the exact result rounded to the        *)
(* nearest float of MantissaBits significant bits, ties to even, as IEEE   *)
(* 754 does for float64 at 53 bits; exponents are not limited.             *)

\* Significant bits the model's floats carry.
MantissaBits == 4

RECURSIVE Pow2(_)
Pow2(k) == IF k = 0 THEN 1 ELSE 2 * Pow2(k - 1)

RECURSIVE Canon(_, _)
Canon(m, e) ==
    IF m = 0 THEN <<0, 0>>
    ELSE IF m % 2 = 0 THEN Canon(m \div 2, e + 1)
    ELSE <<m, e>>

\* n / d * 2^e for n >= 0 and d > 0, rounded.
RECURSIVE RoundRatio(_, _, _)
RoundRatio(n, d, e) ==
    IF n = 0 THEN <<0, 0>>
    ELSE IF n >= d * Pow2(MantissaBits) THEN RoundRatio(n, 2 * d, e + 1)
    ELSE IF n < d * Pow2(MantissaBits - 1) THEN RoundRatio(2 * n, d, e - 1)
    ELSE LET q == n \div d
             r == n % d
         IN  IF 2 * r > d \/ (2 * r = d /\ q % 2 = 1)
             THEN Canon(q + 1, e)
             ELSE Canon(q, e)

Round(n, d, e) ==
    IF n >= 0 THEN RoundRatio(n, d, e)
    ELSE LET r == RoundRatio(-n, d, e) IN <<-r[1], r[2]>>

FromInt(n) == Round(n, 1, 0)

MinExp(a, b) == IF a[2] < b[2] THEN a[2] ELSE b[2]

\* The mantissa of a at the exponent e <= a[2].
At(a, e) == a[1] * Pow2(a[2] - e)

\* a - b, a * b and a / b (b > 0) of float64
fsub(a, b) == Round(At(a, MinExp(a, b)) - At(b, MinExp(a, b)), 1, MinExp(a, b))
fmul(a, b) == Round(a[1] * b[1], 1, a[2] + b[2])
fdiv(a, b) == Round(a[1], b[1], a[2] - b[2])

Less(a, b) == At(a, MinExp(a, b)) < At(b, MinExp(a, b))

\* min and max of Python keep the first of equal arguments.
RECURSIVE min(_)
min(xs) ==
    IF Len(xs) = 1 THEN xs[1]
    ELSE LET m == min(SubSeq(xs, 1, Len(xs) - 1))
         IN  IF Less(xs[Len(xs)], m) THEN xs[Len(xs)] ELSE m

RECURSIVE max(_)
max(xs) ==
    IF Len(xs) = 1 THEN xs[1]
    ELSE LET m == max(SubSeq(xs, 1, Len(xs) - 1))
         IN  IF Less(m, xs[Len(xs)]) THEN xs[Len(xs)] ELSE m

----------------------------------------------------------------------------
(* Objects.  heap[a] is the object at address a: an Ink holds the          *)
(* addresses of its strokes list and annotations dict, a list the          *)
(* addresses of its stroke arrays, an ndarray its rows <<x, y, timestamp>>.*)

InkObject(s, a) == [kind |-> "Ink", strokes |-> s, annotations |-> a]
ListObject(items) == [kind |-> "list", items |-> items]
ArrayObject(rows) == [kind |-> "ndarray", rows |-> rows]
DictObject(map) == [kind |-> "dict", map |-> map]

\* ink.strokes as the addresses of the arrays, and their rows
StrokesOf(h, i) == h[h[i].strokes].items
RowsOf(h, i) == [k \in 1..Len(StrokesOf(h, i)) |-> h[StrokesOf(h, i)[k]].rows]

\* all_x.extend(stroke[0]) over the strokes reads only the last stroke.
ExtendLast(rows, r) == IF rows = <<>> THEN <<>> ELSE rows[Len(rows)][r]

\* all_x / all_y after the loop of lines 106-108: row r of every stroke
RECURSIVE Extend(_, _)
Extend(rows, r) ==
    IF rows = <<>> THEN <<>>
    ELSE Extend(SubSeq(rows, 1, Len(rows) - 1), r) \o rows[Len(rows)][r]

\* get_bounding_box, lines 100-110
get_bounding_box(h, i) ==
    IF StrokesOf(h, i) = <<>> THEN None
    ELSE LET all_x == Extend(RowsOf(h, i), 1)
             all_y == Extend(RowsOf(h, i), 2)
         IN  <<min(all_x), min(all_y), max(all_x), max(all_y)>>

\* The larger of the two factors.
ScaleMax(scale_x, scale_y) == max(<<scale_x, scale_y>>)

\* scale = min(scale_x, scale_y), line 140
Scale(scale_x, scale_y) == min(<<scale_x, scale_y>>)

\* The rows with the timestamps scaled as well.
NormalizedWithTime(rows, min_x, min_y, scale) ==
    <<[j \in 1..Len(rows[1]) |-> fmul(fsub(rows[1][j], min_x), scale)],
      [j \in 1..Len(rows[2]) |-> fmul(fsub(rows[2][j], min_y), scale)],
      [j \in 1..Len(rows[3]) |-> fmul(rows[3][j], scale)]>>

\* The rows with only the minimum scaled: stroke[0] - min_x * scale.
NormalizedShiftScaled(rows, min_x, min_y, scale) ==
    <<[j \in 1..Len(rows[1]) |-> fsub(rows[1][j], fmul(min_x, scale))],
      [j \in 1..Len(rows[2]) |-> fsub(rows[2][j], fmul(min_y, scale))],
      rows[3]>>

\* lines 144-146: the rows of one normalized stroke
Normalized(rows, min_x, min_y, scale) ==
    <<[j \in 1..Len(rows[1]) |-> fmul(fsub(rows[1][j], min_x), scale)],
      [j \in 1..Len(rows[2]) |-> fmul(fsub(rows[2][j], min_y), scale)],
      rows[3]>>

\* The loop leaving out the strokes of a single point.
NormalizedStrokesOfLines(rowsSeq, min_x, min_y, scale) ==
    LET kept == SelectSeq(rowsSeq, LAMBDA rows : Len(rows[1]) > 1)
    IN  [k \in 1..Len(kept) |-> Normalized(kept[k], min_x, min_y, scale)]

\* lines 142-146: the loop over the strokes
NormalizedStrokes(rowsSeq, min_x, min_y, scale) ==
    [k \in 1..Len(rowsSeq) |-> Normalized(rowsSeq[k], min_x, min_y, scale)]

\* The new rows also written into the arrays of the input.
NewArraysInPlace(h, addrs, rowsSeq) ==
    [a \in 1..Len(h) |->
        IF \E k \in 1..Len(rowsSeq) : addrs[k] = a
        THEN ArrayObject(rowsSeq[CHOOSE k \in 1..Len(rowsSeq) : addrs[k] = a])
        ELSE h[a]]
    \o [k \in 1..Len(rowsSeq) |-> ArrayObject(rowsSeq[k])]

\* np.array([...]) of line 146 makes a new array for every stroke; addrs
\* are the arrays of the input.
NewArrays(h, addrs, rowsSeq) ==
    h \o [k \in 1..Len(rowsSeq) |-> ArrayObject(rowsSeq[k])]

\* The same dict under the same address.
dict_alias(h, d) == [heap |-> h, ret |-> d]

\* ink.annotations.copy(), line 148: a new dict with the same items
dict_copy(h, d) == [heap |-> Append(h, DictObject(h[d].map)), ret |-> Len(h) + 1]

\* A new Ink holding the lists of the input.
ReturnCopy(h, i) ==
    [heap |-> Append(h, InkObject(h[i].strokes, h[i].annotations)),
     ret |-> Len(h) + 1]

\* return ink, lines 125, 129 and 136
ReturnInput(h, i) == [heap |-> h, ret |-> i]

IsZero(a) == a[1] = 0

\* width == 0 or height == 0, line 135
Degenerate(bbox) ==
    IsZero(fsub(bbox[3], bbox[1])) \/ IsZero(fsub(bbox[4], bbox[2]))

\* normalize_ink, lines 124-148: the heap after the call and the address
\* returned
normalize_ink(h, i, target) ==
    IF StrokesOf(h, i) = <<>> THEN ReturnInput(h, i)
    ELSE LET bbox == get_bounding_box(h, i) IN
    IF IsNone(bbox) THEN ReturnInput(h, i)
    ELSE LET min_x == bbox[1]
             min_y == bbox[2]
             width == fsub(bbox[3], bbox[1])
             height == fsub(bbox[4], bbox[2])
         IN
    IF IsZero(width) \/ IsZero(height) THEN ReturnInput(h, i)
    ELSE LET scale_x == fdiv(target[1], width)
             scale_y == fdiv(target[2], height)
             scale == Scale(scale_x, scale_y)
             news == NormalizedStrokes(RowsOf(h, i), min_x, min_y, scale)
             h1 == NewArrays(h, StrokesOf(h, i), news)
             h2 == Append(h1, ListObject([k \in 1..Len(news) |-> Len(h) + k]))
             c == dict_copy(h2, h[i].annotations)
         IN  [heap |-> Append(c.heap, InkObject(Len(h2), c.ret)),
              ret |-> Len(c.heap) + 1]

\* stroke_count and point_count, lines 153 and 158
stroke_count(h, i) == Len(StrokesOf(h, i))

RECURSIVE sum(_)
sum(ns) == IF ns = <<>> THEN 0 ELSE Head(ns) + sum(Tail(ns))

point_count(h, i) ==
    sum([k \in 1..Len(RowsOf(h, i)) |-> Len(RowsOf(h, i)[k][1])])

----------------------------------------------------------------------------
(* A caller of the geometry operations: it holds one Ink, calls one        *)
(* operation on it and may then write to the annotations of the Ink that   *)
(* normalize_ink returned.                                                 *)

\* Largest number of strokes of the caller's Ink.
MaxStrokes == 2

F(n) == FromInt(n)

\* Rows <<x, y, timestamp>> of the strokes the caller's Ink is made of.
StrokeSamples ==
    { <<<<F(0), F(5)>>, <<F(0), F(2)>>, <<F(1), F(2)>>>>,
      <<<<F(0), F(3)>>, <<F(0), F(1)>>, <<F(1), F(3)>>>>,
      <<<<F(2), F(2)>>, <<F(1), F(4)>>, <<F(0), F(1)>>>>,
      <<<<F(1), F(6)>>, <<F(3), F(3)>>, <<F(0), F(2)>>>>,
      <<<<F(4)>>, <<F(2)>>, <<F(5)>>>>,
      <<<<F(1), F(5), F(3)>>, <<F(1), F(3), F(2)>>, <<F(0), F(1), F(2)>>>> }

TargetSamples == { <<F(13), F(13)>>, <<F(8), F(8)>>, <<F(4), F(13)>> }

AnnotationMaps ==
    { EmptyDict, DictSet(EmptyDict, Str(<<"label">>), Str(<<"a">>)) }

\* The heap holding one Ink: its arrays, its list, its dict and the Ink.
InkHeap(rowsSeq, map) ==
    [k \in 1..Len(rowsSeq) |-> ArrayObject(rowsSeq[k])]
    \o <<ListObject([k \in 1..Len(rowsSeq) |-> k]),
         DictObject(map),
         InkObject(Len(rowsSeq) + 1, Len(rowsSeq) + 2)>>

GeometryInit ==
    /\ \E n \in 0..MaxStrokes :
          \E rowsSeq \in [1..n -> StrokeSamples] :
             \E map \in AnnotationMaps :
                /\ heap = InkHeap(rowsSeq, map)
                /\ ink = n + 3
    /\ target_size \in TargetSamples
    /\ called = ""
    /\ result = <<>>
    /\ file = [exists |-> FALSE, wellformed |-> FALSE, children |-> <<>>]
    /\ pc = "idle"
    /\ opened = FALSE
    /\ root = <<>>
    /\ idx = 1
    /\ lists = <<<<>>, <<>>, <<>>>>
    /\ strokes = <<>>
    /\ annotations = EmptyDict
    /\ raised = ""
    /\ returned = <<>>
    /\ numpy = "raises"
    /\ cur = 1
    /\ saved = <<>>
    /\ NoComponents

NoParsing == UNCHANGED <<frame, numpy, cur, saved, components>>

GetBoundingBox ==
    /\ called = ""
    /\ called' = "get_bounding_box"
    /\ result' = get_bounding_box(heap, ink)
    /\ UNCHANGED <<heap, ink, target_size>>
    /\ NoParsing

\* lines 124-125
NormalizeNoStrokes ==
    /\ called = ""
    /\ StrokesOf(heap, ink) = <<>>
    /\ called' = "normalize_ink"
    /\ heap' = normalize_ink(heap, ink, target_size).heap
    /\ result' = normalize_ink(heap, ink, target_size).ret
    /\ UNCHANGED <<ink, target_size>>
    /\ NoParsing

\* lines 127-136
NormalizeDegenerate ==
    /\ called = ""
    /\ StrokesOf(heap, ink) # <<>>
    /\ Degenerate(get_bounding_box(heap, ink))
    /\ called' = "normalize_ink"
    /\ heap' = normalize_ink(heap, ink, target_size).heap
    /\ result' = normalize_ink(heap, ink, target_size).ret
    /\ UNCHANGED <<ink, target_size>>
    /\ NoParsing

\* lines 127-148
NormalizeScaled ==
    /\ called = ""
    /\ StrokesOf(heap, ink) # <<>>
    /\ ~Degenerate(get_bounding_box(heap, ink))
    /\ called' = "normalize_ink"
    /\ heap' = normalize_ink(heap, ink, target_size).heap
    /\ result' = normalize_ink(heap, ink, target_size).ret
    /\ UNCHANGED <<ink, target_size>>
    /\ NoParsing

StrokeCount ==
    /\ called = ""
    /\ called' = "stroke_count"
    /\ result' = stroke_count(heap, ink)
    /\ UNCHANGED <<heap, ink, target_size>>
    /\ NoParsing

PointCount ==
    /\ called = ""
    /\ called' = "point_count"
    /\ result' = point_count(heap, ink)
    /\ UNCHANGED <<heap, ink, target_size>>
    /\ NoParsing

\* The caller writes result.annotations[key] = value.
SetAnnotation ==
    /\ called = "normalize_ink"
    /\ \E key \in {Str(<<"label">>), Str(<<"note">>)} :
          heap' = [heap EXCEPT ![heap[result].annotations].map =
                      DictSet(@, key, Str(<<"z">>))]
    /\ called' = "set_annotation"
    /\ UNCHANGED <<ink, target_size, result>>
    /\ NoParsing

\* The caller normalizes the Ink that normalize_ink returned, to the same
\* target.
NormalizeAgain ==
    /\ called = "normalize_ink"
    /\ called' = "normalize_ink again"
    /\ heap' = normalize_ink(heap, result, target_size).heap
    /\ result' = normalize_ink(heap, result, target_size).ret
    /\ UNCHANGED <<ink, target_size>>
    /\ NoParsing

GeometryNext ==
    \/ GetBoundingBox
    \/ NormalizeNoStrokes
    \/ NormalizeDegenerate
    \/ NormalizeScaled
    \/ StrokeCount
    \/ PointCount
    \/ SetAnnotation
    \/ NormalizeAgain

GeometrySpec == GeometryInit /\ [][GeometryNext]_vars

----------------------------------------------------------------------------
(* Config, src/utils/config.py.  A str is the sequence of its characters;  *)
(* a run of characters other than '.' is written as one element.  A value  *)
(* is a str, an int, a tuple, None or the address of a dict on the heap.   *)

IntValue(n) == <<"int", n>>
Tuple(n) == <<"tuple", n>>
Ref(a) == <<"dict", a>>

\* isinstance(value, dict)
IsDict(v) == v[1] = "dict"

\* The class-level tables, each written with some of its entries, at the
\* addresses 1 (DEFAULT_MODELS), 2 (DATASETS), 3 (the dict of
\* mathwriting_2024), 4 (IMAGE_DEFAULTS), 5 (DRAWING_DEFAULTS) and
\* 6 (VISUALIZATION_DEFAULTS).
DEFAULT_MODELS ==
    DictSet(EmptyDict, <<"handwritten_math">>,
            Str(<<"fhswf/TrOCR_Math_handwritten">>))
MathWriting2024 ==
    DictSet(EmptyDict, <<"url">>, Str(<<"https://storage.googleapis.com/mathwriting_data/mathwriting-2024", ".", "tgz">>))
DATASETS == DictSet(EmptyDict, <<"mathwriting_2024">>, Ref(3))
IMAGE_DEFAULTS ==
    DictSet(DictSet(EmptyDict, <<"target_size">>, Tuple(384)),
            <<"max_file_size_mb">>, IntValue(10))
DRAWING_DEFAULTS == DictSet(EmptyDict, <<"brush_size">>, IntValue(3))
VISUALIZATION_DEFAULTS == DictSet(EmptyDict, <<"dpi">>, IntValue(300))

ClassTables ==
    <<DictObject(DEFAULT_MODELS), DictObject(DATASETS),
      DictObject(MathWriting2024), DictObject(IMAGE_DEFAULTS),
      DictObject(DRAWING_DEFAULTS), DictObject(VISUALIZATION_DEFAULTS)>>

\* The literal dict of lines 77-82
Paths == DictSet(EmptyDict, <<"data_dir">>, Str(<<"data">>))

\* _load_default_config, lines 71-83: a copy of each table, the paths dict
\* and the dict that holds them; ret is the address of that dict.
load_default_config(h) ==
    LET c1 == dict_copy(h, 1)
        c2 == dict_copy(c1.heap, 2)
        c3 == dict_copy(c2.heap, 4)
        c4 == dict_copy(c3.heap, 5)
        c5 == dict_copy(c4.heap, 6)
        h6 == Append(c5.heap, DictObject(Paths))
        top == DictSet(DictSet(DictSet(DictSet(DictSet(DictSet(EmptyDict,
                   <<"models">>, Ref(c1.ret)),
                   <<"datasets">>, Ref(c2.ret)),
                   <<"image">>, Ref(c3.ret)),
                   <<"drawing">>, Ref(c4.ret)),
                   <<"visualization">>, Ref(c5.ret)),
                   <<"paths">>, Ref(Len(h6)))
    IN  [heap |-> Append(h6, DictObject(top)), ret |-> Len(h6) + 1]

\* The default handed back as None.
ReturnNone(default) == None

\* return default, line 133
ReturnDefault(default) == default

\* The loop of lines 129-135 from value over keys
RECURSIVE get_loop(_, _, _, _)
get_loop(h, value, keys, default) ==
    IF keys = <<>> THEN value
    ELSE IF IsDict(value) /\ Head(keys) \in DOMAIN h[value[2]].map
    THEN get_loop(h, h[value[2]].map[Head(keys)], Tail(keys), default)
    ELSE ReturnDefault(default)

\* Config.get, lines 126-135, on the Config whose _config is at self
get(h, self, key, default) == get_loop(h, Ref(self), split(key, "."), default)

\* config[k] = v on the dict at address a
SetItem(h, a, k, v) == [h EXCEPT ![a].map = DictSet(@, k, v)]

\* The loop of lines 148-151 and the store of line 153.  Whatever config is
\* when it is not a dict (a str, a tuple, an int), the membership test, the
\* subscript or the item assignment on it raises TypeError.
RECURSIVE set_loop(_, _, _, _)
set_loop(h, config, keys, value) ==
    IF ~IsDict(config) THEN [heap |-> h, raised |-> "TypeError"]
    ELSE IF Len(keys) = 1
    THEN [heap |-> SetItem(h, config[2], keys[1], value), raised |-> ""]
    ELSE IF Head(keys) \notin DOMAIN h[config[2]].map
    THEN set_loop(SetItem(Append(h, DictObject(EmptyDict)), config[2],
                          Head(keys), Ref(Len(h) + 1)),
                  Ref(Len(h) + 1), Tail(keys), value)
    ELSE set_loop(h, h[config[2]].map[Head(keys)], Tail(keys), value)

\* Config.set, lines 145-153
set(h, self, key, value) == set_loop(h, Ref(self), split(key, "."), value)

\* Largest number of calls the callers make.
MaxConfigCalls == 3

\* '.'.join(path)
RECURSIVE JoinDots(_)
JoinDots(path) ==
    IF Len(path) = 1 THEN path[1]
    ELSE path[1] \o <<".">> \o JoinDots(Tail(path))

\* The paths the callers ask for, as segments.
PathSamples ==
    { <<<<"models">>, <<"handwritten_math">>>>,
      <<<<"datasets">>, <<"mathwriting_2024">>, <<"url">>>>,
      <<<<"paths">>, <<"data_dir">>, <<"level">>>>,
      <<<<"image">>, <<"target_size">>, <<"width">>>>,
      <<<<"paths">>>>,
      <<<<"user">>, <<"pen">>, <<"color">>>>,
      <<<<"user">>, <<"pen">>>>,
      <<<<>>>> }

ValueSamples == { Str(<<"blue">>), IntValue(7) }

\* The module-level config = Config() of line 195 exists from the start.
ConfigInit ==
    /\ heap = load_default_config(ClassTables).heap
    /\ instances = <<load_default_config(ClassTables).ret>>
    /\ last = <<>>
    /\ steps = 0
    /\ ink = 0
    /\ target_size = <<>>
    /\ called = ""
    /\ result = <<>>
    /\ file = [exists |-> FALSE, wellformed |-> FALSE, children |-> <<>>]
    /\ pc = "idle"
    /\ opened = FALSE
    /\ root = <<>>
    /\ idx = 1
    /\ lists = <<<<>>, <<>>, <<>>>>
    /\ strokes = <<>>
    /\ annotations = EmptyDict
    /\ raised = ""
    /\ returned = <<>>
    /\ numpy = "raises"
    /\ cur = 1
    /\ saved = <<>>
    /\ NoOcr
    /\ NoDownloader
    /\ NoPad

OnlyConfig ==
    UNCHANGED <<frame, numpy, cur, saved, ink, target_size, called, result,
                ocr, downloader, pad>>

\* Config(), lines 57-67 with no config_file
NewConfig ==
    /\ steps < MaxConfigCalls
    /\ steps' = steps + 1
    /\ heap' = load_default_config(heap).heap
    /\ instances' = Append(instances, load_default_config(heap).ret)
    /\ last' = [op |-> "Config", self |-> Len(instances) + 1]
    /\ OnlyConfig

ConfigGet ==
    /\ steps < MaxConfigCalls
    /\ steps' = steps + 1
    /\ \E self \in 1..Len(instances), path \in PathSamples,
          default \in {None, Str(<<"fallback">>)} :
          last' = [op |-> "get", self |-> self, path |-> path,
                   default |-> default,
                   ret |-> get(heap, instances[self], JoinDots(path), default)]
    /\ UNCHANGED <<heap, instances>>
    /\ OnlyConfig

ConfigSet ==
    /\ steps < MaxConfigCalls
    /\ steps' = steps + 1
    /\ \E self \in 1..Len(instances), path \in PathSamples,
          value \in ValueSamples :
          /\ heap' = set(heap, instances[self], JoinDots(path), value).heap
          /\ last' = [op |-> "set", self |-> self, path |-> path,
                      value |-> value,
                      raised |-> set(heap, instances[self], JoinDots(path),
                                     value).raised]
    /\ UNCHANGED instances
    /\ OnlyConfig

ConfigNext ==
    \/ NewConfig
    \/ ConfigGet
    \/ ConfigSet

ConfigSpec == ConfigInit /\ [][ConfigNext]_vars

----------------------------------------------------------------------------
(* MathOCRModel, src/models/math_ocr.py.  An image is what the TrOCR model *)
(* makes of it: the text predict_from_image returns for it, or the         *)
(* exception it raises.                                                    *)

Image(raises, text) == [raises |-> raises, text |-> text]

\* predict_from_image(image), lines 75-123
predict_from_image(image) ==
    IF image.raises # "" THEN [raised |-> image.raises, ret |-> <<>>]
    ELSE [raised |-> "", ret |-> image.text]

\* try: predict_from_image(image) except Exception: "", lines 145-150
TryPredict(image) ==
    IF predict_from_image(image).raised = ""
    THEN predict_from_image(image).ret
    ELSE IF "Exception" \in Mro(predict_from_image(image).raised)
    THEN <<>>
    ELSE None

\* The slice images[i:batch_size].
BatchUpTo(xs, i, size) ==
    SubSeq(xs, i + 1, IF size < Len(xs) THEN size ELSE Len(xs))

\* images[i:i + batch_size], i counted from 0, line 141
Batch(xs, i, size) ==
    SubSeq(xs, i + 1, IF i + size < Len(xs) THEN i + size ELSE Len(xs))

\* The loop of lines 140-152 from index i on
RECURSIVE predict_batch_from(_, _, _)
predict_batch_from(xs, size, i) ==
    IF i >= Len(xs) THEN <<>>
    ELSE LET batch == Batch(xs, i, size)
             batch_results == [k \in 1..Len(batch) |-> TryPredict(batch[k])]
         IN  batch_results \o predict_batch_from(xs, size, i + size)

\* predict_batch, lines 138-154
predict_batch(xs, size) == predict_batch_from(xs, size, 0)

\* batch_size: int = 4
DefaultBatchSize == 4

zip(xs, ys) ==
    [k \in 1..(IF Len(xs) < Len(ys) THEN Len(xs) ELSE Len(ys)) |->
        <<xs[k], ys[k]>>]

abs(n) == IF n < 0 THEN -n ELSE n

\* sum(1 for pred, gt in zip(...) if pred.strip() == gt.strip()), line 199
ExactMatches(pairs) ==
    Cardinality({ k \in 1..Len(pairs) : strip(pairs[k][1]) = strip(pairs[k][2]) })

\* char_correct and total_chars after the loop of lines 207-218
RECURSIVE CharCounts(_)
CharCounts(pairs) ==
    IF pairs = <<>> THEN <<0, 0>>
    ELSE LET rest == CharCounts(SubSeq(pairs, 1, Len(pairs) - 1))
             pred_clean == strip(pairs[Len(pairs)][1])
             gt_clean == strip(pairs[Len(pairs)][2])
             chars == zip(pred_clean, gt_clean)
         IN  <<rest[1] + Cardinality({ k \in 1..Len(chars) :
                                        chars[k][1] = chars[k][2] }),
               rest[2] + Len(chars) + abs(Len(pred_clean) - Len(gt_clean))>>

\* evaluate_accuracy, lines 193-227
evaluate_accuracy(xs, truth) ==
    IF Len(xs) # Len(truth) THEN [raised |-> "ValueError", ret |-> <<>>]
    ELSE LET predictions == predict_batch(xs, DefaultBatchSize)
             pairs == zip(predictions, truth)
             exact_matches == ExactMatches(pairs)
             counts == CharCounts(pairs)
         IN  IF Len(predictions) = 0
             THEN [raised |-> "ZeroDivisionError", ret |-> <<>>]
             ELSE [raised |-> "",
                   ret |-> [exact_match_accuracy |->
                                fdiv(FromInt(exact_matches),
                                     FromInt(Len(predictions))),
                            character_accuracy |->
                                IF counts[2] > 0
                                THEN fdiv(FromInt(counts[1]), FromInt(counts[2]))
                                ELSE FromInt(0),
                            total_samples |-> Len(predictions),
                            exact_matches |-> exact_matches]]

\* Largest number of images the caller passes.
MaxImages == 3

ImageSamples ==
    { Image("", <<"x">>), Image("", <<"x", " ">>),
      Image("ValueError", <<>>), Image("FileNotFoundError", <<>>) }

TruthSamples == { <<"x">>, <<" ", "y">> }

OcrInit ==
    /\ \E n \in 0..MaxImages : images \in [1..n -> ImageSamples]
    /\ batch_size \in 1..DefaultBatchSize
    /\ \E n \in 0..MaxImages : ground_truth \in [1..n -> TruthSamples]
    /\ outcome = <<>>
    /\ NoConfig
    /\ NoDownloader
    /\ NoPad
    /\ NoGeometry
    /\ file = [exists |-> FALSE, wellformed |-> FALSE, children |-> <<>>]
    /\ pc = "idle"
    /\ opened = FALSE
    /\ root = <<>>
    /\ idx = 1
    /\ lists = <<<<>>, <<>>, <<>>>>
    /\ strokes = <<>>
    /\ annotations = EmptyDict
    /\ raised = ""
    /\ returned = <<>>
    /\ numpy = "raises"
    /\ cur = 1
    /\ saved = <<>>

OnlyOcr ==
    UNCHANGED <<frame, numpy, cur, saved, geometry, configs, downloader, pad>>

PredictBatch ==
    /\ outcome = <<>>
    /\ outcome' = [op |-> "predict_batch", raised |-> "",
                   ret |-> predict_batch(images, batch_size)]
    /\ UNCHANGED <<images, batch_size, ground_truth>>
    /\ OnlyOcr

EvaluateAccuracy ==
    /\ outcome = <<>>
    /\ outcome' = [op |-> "evaluate_accuracy",
                   raised |-> evaluate_accuracy(images, ground_truth).raised,
                   ret |-> evaluate_accuracy(images, ground_truth).ret]
    /\ UNCHANGED <<images, batch_size, ground_truth>>
    /\ OnlyOcr

OcrNext ==
    \/ PredictBatch
    \/ EvaluateAccuracy

OcrSpec == OcrInit /\ [][OcrNext]_vars

----------------------------------------------------------------------------
(* DataDownloader.download_mathwriting_dataset,                            *)
(* src/utils/data_downloader.py.  dataset_dir is "absent", "partial" (some *)
(* members extracted) or "complete"; the archive is "absent", "partial"    *)
(* (some chunks written), "corrupt" (all chunks written, not a valid       *)
(* tar.gz) or "complete".  The server and the archive it sends are inputs. *)

\* Largest number of calls of download_mathwriting_dataset.
MaxDownloads == 3

DownloaderInit ==
    /\ NoDownloader
    /\ NoConfig
    /\ NoOcr
    /\ NoPad
    /\ NoGeometry
    /\ file = [exists |-> FALSE, wellformed |-> FALSE, children |-> <<>>]
    /\ pc = "idle"
    /\ opened = FALSE
    /\ root = <<>>
    /\ idx = 1
    /\ lists = <<<<>>, <<>>, <<>>>>
    /\ strokes = <<>>
    /\ annotations = EmptyDict
    /\ raised = ""
    /\ returned = <<>>
    /\ numpy = "raises"
    /\ cur = 1
    /\ saved = <<>>

OnlyDownloader ==
    UNCHANGED <<frame, numpy, cur, saved, geometry, configs, ocr, pad>>

\* dataset_dir.exists() and not force_download, line 51
AlreadyThere(force_download) ==
    disk.dataset_dir # "absent" /\ ~force_download

\* The call starts: lines 47-56
StartDownload ==
    /\ download.pc \in {"idle", "returned", "raised"}
    /\ downloads < MaxDownloads
    /\ downloads' = downloads + 1
    /\ \E force_download \in BOOLEAN :
          download' = [pc |-> IF AlreadyThere(force_download)
                              THEN "returned" ELSE "download",
                       force_download |-> force_download,
                       downloaded |-> FALSE, raised |-> ""]
    /\ UNCHANGED <<disk, completed>>
    /\ OnlyDownloader

\* requests.get or raise_for_status raises, lines 58-59 and 67-68
RequestFails ==
    /\ download.pc = "download"
    /\ download' = [download EXCEPT !.pc = "raised",
                                    !.raised = "RequestException"]
    /\ UNCHANGED <<disk, downloads, completed>>
    /\ OnlyDownloader

\* open(archive_path, 'wb') makes the file and iter_content raises after
\* some chunks, lines 61-63 and 67-68
StreamFails ==
    /\ download.pc = "download"
    /\ disk' = [disk EXCEPT !.archive = "partial"]
    /\ download' = [download EXCEPT !.pc = "raised",
                                    !.raised = "RequestException"]
    /\ UNCHANGED <<downloads, completed>>
    /\ OnlyDownloader

\* Every chunk the server sent is written, lines 58-65
Downloaded ==
    /\ download.pc = "download"
    /\ \E sent \in {"complete", "corrupt"} :
          disk' = [disk EXCEPT !.archive = sent]
    /\ download' = [download EXCEPT !.pc = "extract", !.downloaded = TRUE]
    /\ UNCHANGED <<downloads, completed>>
    /\ OnlyDownloader

\* tarfile.open or extractall raises, lines 73-78: TarError for an archive
\* that is not a valid tar.gz, OSError when a member cannot be written; the
\* members extracted before the error stay.
ExtractFails ==
    /\ download.pc = "extract"
    /\ \E e \in {"TarError", "OSError"}, some \in BOOLEAN :
          /\ e = "TarError" => disk.archive = "corrupt"
          /\ download' = [download EXCEPT !.pc = "raised", !.raised = e]
          /\ disk' = [disk EXCEPT !.dataset_dir =
                         IF some THEN "partial" ELSE @]
    /\ UNCHANGED <<downloads, completed>>
    /\ OnlyDownloader

\* extractall succeeds and the archive is removed, lines 73-85
Extracted ==
    /\ download.pc = "extract"
    /\ disk.archive = "complete"
    /\ disk' = [dataset_dir |-> "complete", archive |-> "absent"]
    /\ download' = [download EXCEPT !.pc = "returned"]
    /\ completed' = TRUE
    /\ UNCHANGED downloads
    /\ OnlyDownloader

DownloaderNext ==
    \/ StartDownload
    \/ RequestFails
    \/ StreamFails
    \/ Downloaded
    \/ ExtractFails
    \/ Extracted

DownloaderSpec == DownloaderInit /\ [][DownloaderNext]_vars

----------------------------------------------------------------------------
(* The event handlers of the drawing pad, the script in                    *)
(* DrawingInterface.create_drawing_pad, src/ui/drawing_interface.py        *)

\* Largest number of mouse events delivered to the canvas.
MaxEvents == 4

\* canvas.getBoundingClientRect(): left and top of the canvas
Rect == [left |-> 10, top |-> 20]

\* clientX and clientY of the events
ClientPoints == { <<11, 22>>, <<13, 21>> }

MouseEvent(type, p) == [type |-> type, clientX |-> p[1], clientY |-> p[2]]

\* {x: e.clientX - rect.left, y: e.clientY - rect.top}
PointOf(e) == [x |-> e.clientX - Rect.left, y |-> e.clientY - Rect.top]

PadInit ==
    /\ NoPad
    /\ NoConfig
    /\ NoOcr
    /\ NoDownloader
    /\ NoGeometry
    /\ file = [exists |-> FALSE, wellformed |-> FALSE, children |-> <<>>]
    /\ pc = "idle"
    /\ opened = FALSE
    /\ root = <<>>
    /\ idx = 1
    /\ lists = <<<<>>, <<>>, <<>>>>
    /\ strokes = <<>>
    /\ annotations = EmptyDict
    /\ raised = ""
    /\ returned = <<>>
    /\ numpy = "raises"
    /\ cur = 1
    /\ saved = <<>>

OnlyPad ==
    UNCHANGED <<frame, numpy, cur, saved, geometry, configs, ocr, downloader>>

Deliver(e) ==
    /\ Len(events) < MaxEvents
    /\ events' = Append(events, e)

\* startDrawing(e), lines 130-139
startDrawing(e) ==
    /\ isDrawing' = TRUE
    /\ currentStroke' = <<PointOf(e)>>
    /\ UNCHANGED padStrokes

\* draw(e), lines 141-158
draw(e) ==
    IF ~isDrawing THEN UNCHANGED <<isDrawing, padStrokes, currentStroke>>
    ELSE /\ currentStroke' = Append(currentStroke, PointOf(e))
         /\ UNCHANGED <<isDrawing, padStrokes>>

\* stopDrawing(), lines 160-165
stopDrawing ==
    /\ padStrokes' = IF isDrawing /\ Len(currentStroke) > 0
                     THEN Append(padStrokes, currentStroke)
                     ELSE padStrokes
    /\ isDrawing' = FALSE
    /\ UNCHANGED currentStroke

\* The listeners of lines 125-128
MouseDown ==
    /\ \E p \in ClientPoints :
          /\ Deliver(MouseEvent("mousedown", p))
          /\ startDrawing(MouseEvent("mousedown", p))
    /\ OnlyPad

MouseMove ==
    /\ \E p \in ClientPoints :
          /\ Deliver(MouseEvent("mousemove", p))
          /\ draw(MouseEvent("mousemove", p))
    /\ OnlyPad

MouseUp ==
    /\ \E p \in ClientPoints : Deliver(MouseEvent("mouseup", p))
    /\ stopDrawing
    /\ OnlyPad

MouseOut ==
    /\ \E p \in ClientPoints : Deliver(MouseEvent("mouseout", p))
    /\ stopDrawing
    /\ OnlyPad

PadNext ==
    \/ MouseDown
    \/ MouseMove
    \/ MouseUp
    \/ MouseOut

PadSpec == PadInit /\ [][PadNext]_vars

----------------------------------------------------------------------------
(* Vocabulary of the properties: points as the format defines them *)

\* The maximal runs of non-whitespace characters of s, in order.
RECURSIVE WhitespaceTokens(_)
WhitespaceTokens(s) ==
    IF s = <<>> THEN <<>>
    ELSE IF s[1] \in Whitespace THEN WhitespaceTokens(Tail(s))
    ELSE LET n == CHOOSE k \in 1..Len(s) :
                      /\ \A j \in 1..k : s[j] \notin Whitespace
                      /\ k = Len(s) \/ s[k + 1] \in Whitespace
         IN  <<SubSeq(s, 1, n)>> \o WhitespaceTokens(SubSeq(s, n + 1, Len(s)))

IsNumber(tok) == tok # <<>> /\ \A i \in 1..Len(tok) : tok[i] \in Digits

\* A segment is a well-formed point when it is three numbers.
WellFormed(seg) ==
    LET toks == WhitespaceTokens(seg)
    IN  Len(toks) = 3 /\ \A i \in 1..3 : IsNumber(toks[i])

Segments(text) == split(text, ",")

\* Row r (1 = x, 2 = y, 3 = timestamp) of the well-formed points of segs.
RECURSIVE WellFormedRow(_, _)
WellFormedRow(segs, r) ==
    IF segs = <<>> THEN <<>>
    ELSE IF WellFormed(Head(segs))
         THEN <<DecimalValue(WhitespaceTokens(Head(segs))[r])>>
                  \o WellFormedRow(Tail(segs), r)
         ELSE WellFormedRow(Tail(segs), r)

\* The stroke a trace text stands for, as <<x row, y row, timestamp row>>.
StrokeOf(text) ==
    <<WellFormedRow(Segments(text), 1), WellFormedRow(Segments(text), 2),
      WellFormedRow(Segments(text), 3)>>

\* An optional text without any well-formed point.
NoPoints(text) ==
    IsNone(text) \/ StrokeOf(StrOf(text))[3] = <<>>

IsTrace(e) == e.tag[2] = "trace" /\ e.tag[1] \in {"", InkMLPrefix}
IsAnnotation(e) == e.tag[2] = "annotation" /\ e.tag[1] \in {"", InkMLPrefix}

RECURSIVE TraceTexts(_)
TraceTexts(elems) ==
    IF elems = <<>> THEN <<>>
    ELSE IF IsTrace(Head(elems))
         THEN <<Head(elems).text>> \o TraceTexts(Tail(elems))
         ELSE TraceTexts(Tail(elems))

Ended == pc \in {"done", "raised"}
WellFormedFile == file.exists /\ file.wellformed

----------------------------------------------------------------------------
(* Properties *)

\* C1: a document whose k trace elements each hold at least one well-formed
\* point parses to an Ink with exactly k strokes, the i-th being the points
\* of the i-th trace element.
C1_OneStrokePerTrace ==
    LET texts == TraceTexts(file.children)
    IN  (/\ WellFormedFile
         /\ Ended
         /\ \A i \in 1..Len(texts) : ~NoPoints(texts[i]))
        => /\ pc = "done"
           /\ returned[1].strokes =
                  [i \in 1..Len(texts) |-> StrokeOf(StrOf(texts[i]))]

\* C2: a trace with well-formed segments adds exactly one stroke, made of
\* its well-formed segments in order, and no error: a malformed segment
\* leaves nothing behind and costs no other point.
C2_MalformedSegmentSkipped ==
    [][ (pc = "if" /\ ~NoPoints(root[idx].text))
        => /\ pc' # "raised"
           /\ strokes' = Append(strokes, StrokeOf(StrOf(root[idx].text))) ]_vars

\* C3: handling a trace element without any well-formed point (no text, or
\* only malformed segments) raises nothing and adds no stroke.
C3_EmptyTraceAddsNoStroke ==
    [][ (/\ pc \in {"for", "if"}
         /\ idx <= Len(root)
         /\ IsTrace(root[idx])
         /\ NoPoints(root[idx].text))
        => (pc' # "raised" /\ strokes' = strokes) ]_vars

\* C4: every stroke of a returned Ink has equally long x, y and timestamp
\* rows and at least one point.
C4_StrokesRectangularNonEmpty ==
    returned # <<>> =>
        \A i \in 1..Len(returned[1].strokes) :
            LET s == returned[1].strokes[i]
            IN  /\ Len(s[1]) = Len(s[2])
                /\ Len(s[2]) = Len(s[3])
                /\ Len(s[1]) >= 1

\* C5: for a path that does not exist the call raises FileNotFoundError,
\* never attempts to open the file and returns no Ink.
C5_MissingFileNotFound ==
    ~file.exists =>
        /\ ~opened
        /\ returned = <<>>
        /\ pc \in {"start", "raised"}
        /\ pc = "raised" => raised = "FileNotFoundError"

C5_Witness == ~file.exists /\ pc = "raised" /\ raised = "FileNotFoundError"

\* C6: for an existing file that is not well-formed markup the call raises
\* ValueError, which no handler for FileNotFoundError catches (nor the other
\* way round), and returns no Ink.
C6_MalformedDocumentValueError ==
    (file.exists /\ ~file.wellformed) =>
        /\ returned = <<>>
        /\ pc \in {"start", "raised"}
        /\ pc = "raised" =>
              /\ "ValueError" \in Mro(raised)
              /\ "FileNotFoundError" \notin Mro(raised)
              /\ "ValueError" \notin Mro("FileNotFoundError")

C6_Witness ==
    file.exists /\ ~file.wellformed /\ opened /\ pc = "raised"

\* C7: an existing, well-formed document never makes the call raise.
C7_NoOtherFatalFailure ==
    WellFormedFile => pc # "raised"

\* C8: the returned annotations have exactly the types of the document's
\* annotation elements as keys, each with the text of the last element of
\* that type.
C8_AnnotationsLastWriteWins ==
    returned # <<>> =>
        LET ann == returned[1].annotations
            A == {i \in 1..Len(file.children) : IsAnnotation(file.children[i])}
        IN  /\ DOMAIN ann = {file.children[i].type : i \in A}
            /\ \A i \in A :
                  (\A j \in A : j > i =>
                        file.children[j].type # file.children[i].type)
                  => ann[file.children[i].type] = file.children[i].text

C8_Witness ==
    /\ returned # <<>>
    /\ \E i, j \in 1..Len(file.children) :
          /\ i < j
          /\ IsAnnotation(file.children[i])
          /\ IsAnnotation(file.children[j])
          /\ file.children[i].type = file.children[j].type
          /\ file.children[i].text # file.children[j].text
    /\ Cardinality(DOMAIN returned[1].annotations) = 2

\* C9: every key and every value of the returned annotations is a string,
\* never None.
C9_AnnotationsAreStrings ==
    returned # <<>> =>
        \A k \in DOMAIN returned[1].annotations :
            ~IsNone(k) /\ ~IsNone(returned[1].annotations[k])

\* C10: a segment contributes a point exactly when splitting it on
\* whitespace gives three numbers: after the point loop there is one
\* timestamp per such segment, in order.
C10_WhitespaceSeparatedPoint ==
    pc = "if" =>
        lists[3] = WellFormedRow(Segments(StrOf(root[idx].text)), 3)

\* The frame of call c, running or suspended.
FrameOf(c) == IF c = cur THEN Running ELSE saved[1]

FrameEnded(f) == f.pc \in {"done", "raised"}

\* C11: a document with namespace-qualified element names and the same
\* document with unqualified names parse to the same Ink (or fail alike).
C11_QualifiedLikeUnqualified ==
    (/\ saved # <<>>
     /\ Unqualified(FrameOf(1).file) = Unqualified(FrameOf(2).file)
     /\ FrameEnded(FrameOf(1))
     /\ FrameEnded(FrameOf(2)))
    => Outcome(FrameOf(1)) = Outcome(FrameOf(2))

C11_Witness ==
    /\ saved # <<>>
    /\ FrameOf(2).file = Unqualified(FrameOf(1).file)
    /\ \E i \in 1..Len(FrameOf(1).file.children) :
          /\ FrameOf(1).file.children[i].tag = <<InkMLPrefix, "trace">>
          /\ FrameOf(2).file.children[i].tag = <<"", "trace">>
    /\ \E i \in 1..Len(FrameOf(1).file.children) :
          FrameOf(1).file.children[i].tag = <<InkMLPrefix, "annotation">>
    /\ FrameOf(1).returned # <<>>
    /\ FrameOf(2).returned # <<>>
    /\ FrameOf(2).returned[1].strokes # <<>>

\* C20: whatever the interleaving of two calls, each call ends with the
\* outcome it has when it runs alone.
C20_InterleavedLikeAlone ==
    saved # <<>> =>
        \A c \in {1, 2} :
            FrameEnded(FrameOf(c)) =>
                Outcome(FrameOf(c)) = ReadAlone(FrameOf(c).file, numpy)

C20_Witness ==
    /\ saved # <<>>
    /\ cur = 1
    /\ pc = "done"
    /\ returned[1].strokes # <<>>
    /\ DOMAIN returned[1].annotations # {}
    /\ saved[1].pc = "if"
    /\ saved[1].lists[3] # <<>>

----------------------------------------------------------------------------
(* Vocabulary of the geometry properties *)

\* The values of row r (1 = x, 2 = y) over all points of all strokes.
Coordinates(h, i, r) ==
    UNION { { RowsOf(h, i)[k][r][j] : j \in 1..Len(RowsOf(h, i)[k][r]) } :
              k \in 1..Len(RowsOf(h, i)) }

Least(S) == CHOOSE m \in S : \A v \in S : ~Less(v, m)
Greatest(S) == CHOOSE m \in S : \A v \in S : ~Less(m, v)

\* The Ink at address i as a value.
InkValue(h, i) ==
    [strokes |-> RowsOf(h, i), annotations |-> h[h[i].annotations].map]

\* The heap with the strokes of the Ink at i in the order p.
Reordered(h, i, p) ==
    [h EXCEPT ![h[i].strokes].items = [k \in 1..Len(@) |-> @[p[k]]]]

\* A step in which the caller calls normalize_ink / any operation.
NormalizeStep == called = "" /\ called' = "normalize_ink"
OperationStep ==
    called = "" /\ called' \in {"get_bounding_box", "normalize_ink",
                               "stroke_count", "point_count"}

\* The Ink has strokes and a bounding box of non-zero width and height.
HasArea(h, i) ==
    /\ StrokesOf(h, i) # <<>>
    /\ Least(Coordinates(h, i, 1)) # Greatest(Coordinates(h, i, 1))
    /\ Least(Coordinates(h, i, 2)) # Greatest(Coordinates(h, i, 2))

Width(h, i) == fsub(Greatest(Coordinates(h, i, 1)), Least(Coordinates(h, i, 1)))
Height(h, i) == fsub(Greatest(Coordinates(h, i, 2)), Least(Coordinates(h, i, 2)))

\* min(target width / box width, target height / box height)
FitScale(h, i, target) ==
    IF Less(fdiv(target[2], Height(h, i)), fdiv(target[1], Width(h, i)))
    THEN fdiv(target[2], Height(h, i))
    ELSE fdiv(target[1], Width(h, i))

\* C12: get_bounding_box returns None exactly when the Ink has no strokes,
\* otherwise the least and greatest x and y over all points, and the same
\* for the strokes in any order.
C12_BoundingBox ==
    called = "get_bounding_box" =>
        /\ IsNone(result) <=> StrokesOf(heap, ink) = <<>>
        /\ StrokesOf(heap, ink) # <<>> =>
              result = <<Least(Coordinates(heap, ink, 1)),
                         Least(Coordinates(heap, ink, 2)),
                         Greatest(Coordinates(heap, ink, 1)),
                         Greatest(Coordinates(heap, ink, 2))>>
        /\ \A p \in Permutations(1..Len(StrokesOf(heap, ink))) :
              get_bounding_box(Reordered(heap, ink, p), ink) = result

C12_Witness ==
    /\ called = "get_bounding_box"
    /\ Len(StrokesOf(heap, ink)) = 2
    /\ RowsOf(heap, ink)[1] # RowsOf(heap, ink)[2]
    /\ result[1] # RowsOf(heap, ink)[2][1][1]
    /\ result[3] # RowsOf(heap, ink)[2][1][1]
    /\ result[4] # RowsOf(heap, ink)[1][2][1]

\* C13: for an Ink whose bounding box has non-zero width and height,
\* normalize_ink replaces every x by (x - min_x) * scale and every y by
\* (y - min_y) * scale, with the one factor
\* scale = min(target width / box width, target height / box height) for
\* both axes and every stroke.
C13_UniformScale ==
    [][NormalizeStep /\ HasArea(heap, ink) =>
          /\ Len(RowsOf(heap', result')) = Len(RowsOf(heap, ink))
          /\ \A k \in 1..Len(RowsOf(heap, ink)) :
                \A r \in 1..2 :
                   /\ Len(RowsOf(heap', result')[k][r]) = Len(RowsOf(heap, ink)[k][r])
                   /\ \A j \in 1..Len(RowsOf(heap, ink)[k][r]) :
                         RowsOf(heap', result')[k][r][j] =
                            fmul(fsub(RowsOf(heap, ink)[k][r][j],
                                      Least(Coordinates(heap, ink, r))),
                                 FitScale(heap, ink, target_size))]_vars

C13_Witness ==
    /\ called = "normalize_ink"
    /\ result # ink
    /\ Len(StrokesOf(heap, ink)) = 2
    /\ Less(fdiv(target_size[2], Height(heap, ink)),
            fdiv(target_size[1], Width(heap, ink)))
    /\ Least(Coordinates(heap, ink, 1)) # F(0)
    /\ RowsOf(heap, result) # RowsOf(heap, ink)

\* C14: for an Ink with a non-degenerate bounding box of width w and height
\* h, the bounding box of the result of normalize_ink has its minimum corner
\* at (0, 0), width w * scale and height h * scale, lies within the target
\* rectangle and touches the target size in at least one dimension.
C14_FitsAndTouchesTarget ==
    called = "normalize_ink" /\ HasArea(heap, ink) =>
        /\ Least(Coordinates(heap, result, 1)) = F(0)
        /\ Least(Coordinates(heap, result, 2)) = F(0)
        /\ Width(heap, result) =
              fmul(Width(heap, ink), FitScale(heap, ink, target_size))
        /\ Height(heap, result) =
              fmul(Height(heap, ink), FitScale(heap, ink, target_size))
        /\ ~Less(target_size[1], Width(heap, result))
        /\ ~Less(target_size[2], Height(heap, result))
        /\ \/ Width(heap, result) = target_size[1]
           \/ Height(heap, result) = target_size[2]

SetAnnotationStep == called = "normalize_ink" /\ called' = "set_annotation"

\* The annotations dict of the Ink at i: its address and its items.
AnnotationsOf(h, i) == h[i].annotations
ItemsOf(h, i) == h[h[i].annotations].map

C17_InputNotMutated ==
    [][OperationStep =>
          /\ ink' = ink
          /\ heap'[ink] = heap[ink]
          /\ StrokesOf(heap', ink) = StrokesOf(heap, ink)
          /\ InkValue(heap', ink) = InkValue(heap, ink)]_vars

C17_Witness ==
    /\ called = "normalize_ink"
    /\ result # ink
    /\ DOMAIN ItemsOf(heap, ink) # {}
    /\ \A k \in 1..Len(RowsOf(heap, ink)) :
          RowsOf(heap, result)[k] # RowsOf(heap, ink)[k]

\* C18: normalize_ink never changes timestamps: the timestamp of point j of
\* stroke i in the result equals the timestamp of point j of stroke i in
\* the input.
C18_TimestampsUnchanged ==
    [][NormalizeStep =>
          /\ Len(RowsOf(heap', result')) = Len(RowsOf(heap, ink))
          /\ \A k \in 1..Len(RowsOf(heap, ink)) :
                RowsOf(heap', result')[k][3] = RowsOf(heap, ink)[k][3]]_vars

C18_Witness ==
    /\ called = "normalize_ink"
    /\ result # ink
    /\ \E k \in 1..Len(RowsOf(heap, ink)) :
          \E j \in 1..Len(RowsOf(heap, ink)[k][3]) :
             /\ fmul(RowsOf(heap, ink)[k][3][j],
                     FitScale(heap, ink, target_size)) # RowsOf(heap, ink)[k][3][j]
             /\ RowsOf(heap, result)[k][1][j] # RowsOf(heap, ink)[k][1][j]

\* C19: for every Ink and target size, stroke_count and point_count of the
\* result of normalize_ink equal those of the input, and each stroke of the
\* result has as many points as the input stroke at the same position.
C19_CardinalityUnchanged ==
    [][NormalizeStep =>
          /\ stroke_count(heap', result') = stroke_count(heap, ink)
          /\ point_count(heap', result') = point_count(heap, ink)
          /\ \A k \in 1..Len(RowsOf(heap, ink)) :
                \A r \in 1..3 :
                   Len(RowsOf(heap', result')[k][r]) = Len(RowsOf(heap, ink)[k][r])]_vars

C19_Witness ==
    /\ called = "normalize_ink"
    /\ result # ink
    /\ stroke_count(heap, result) = 2
    /\ Len(RowsOf(heap, result)[1][1]) # Len(RowsOf(heap, result)[2][1])
    /\ \E k \in 1..2 : Len(RowsOf(heap, result)[k][1]) = 1

----------------------------------------------------------------------------
(* Exact arithmetic: an operation is exact when its rounded result is the  *)
(* exact one.                                                              *)

\* The float a is the number n / d * 2^e.
IsExactly(a, n, d, e) ==
    LET lo == IF a[2] < e THEN a[2] ELSE e
    IN  a[1] * d * Pow2(a[2] - lo) = n * Pow2(e - lo)

ExactSub(a, b) ==
    IsExactly(fsub(a, b), At(a, MinExp(a, b)) - At(b, MinExp(a, b)), 1,
              MinExp(a, b))
ExactMul(a, b) == IsExactly(fmul(a, b), a[1] * b[1], 1, a[2] + b[2])
ExactDiv(a, b) == IsExactly(fdiv(a, b), a[1], b[1], a[2] - b[2])

\* Every operation of normalize_ink(ink at i, target) is exact.
ExactArithmetic(h, i, target) ==
    /\ ExactSub(Greatest(Coordinates(h, i, 1)), Least(Coordinates(h, i, 1)))
    /\ ExactSub(Greatest(Coordinates(h, i, 2)), Least(Coordinates(h, i, 2)))
    /\ ExactDiv(target[1], Width(h, i))
    /\ ExactDiv(target[2], Height(h, i))
    /\ \A r \in 1..2 :
          \A v \in Coordinates(h, i, r) :
             /\ ExactSub(v, Least(Coordinates(h, i, r)))
             /\ ExactMul(fsub(v, Least(Coordinates(h, i, r))),
                         FitScale(h, i, target))

\* A step in which the caller normalizes the result once more.
NormalizeAgainStep ==
    called = "normalize_ink" /\ called' = "normalize_ink again"

\* C21: normalize_ink is idempotent for a fixed target in exact arithmetic:
\* for an Ink with a non-degenerate bounding box, normalizing the result of
\* normalize_ink(ink, T) to T again yields the same coordinates.
C21_IdempotentWhenExact ==
    [][/\ NormalizeAgainStep
       /\ HasArea(heap, ink)
       /\ ExactArithmetic(heap, ink, target_size)
       /\ ExactArithmetic(heap, result, target_size)
       => /\ Len(RowsOf(heap', result')) = Len(RowsOf(heap, result))
          /\ \A k \in 1..Len(RowsOf(heap, result)) :
                \A r \in 1..2 :
                   RowsOf(heap', result')[k][r] = RowsOf(heap, result)[k][r]]_vars

C21_Witness ==
    /\ called = "normalize_ink again"
    /\ HasArea(heap, ink)
    /\ ExactArithmetic(heap, ink, target_size)
    /\ ExactArithmetic(heap, result, target_size)
    /\ FitScale(heap, ink, target_size) # F(1)
    /\ Least(Coordinates(heap, ink, 1)) # F(0)
    /\ result # ink
    /\ RowsOf(heap, result) # RowsOf(heap, ink)
    /\ Len(StrokesOf(heap, ink)) = 2

----------------------------------------------------------------------------
(* Vocabulary of the Config properties *)

\* The entries <<path, value>> below the dict at address a, found by walking
\* the whole tree of dicts; n bounds the depth.
RECURSIVE Entries(_, _, _)
Entries(h, a, n) ==
    IF n = 0 THEN {}
    ELSE { <<<<k>>, h[a].map[k]>> : k \in DOMAIN h[a].map }
         \cup UNION { { <<<<k>> \o e[1], e[2]>> :
                           e \in Entries(h, h[a].map[k][2], n - 1) } :
                      k \in { q \in DOMAIN h[a].map : IsDict(h[a].map[q]) } }

EntriesOf(h, a) == Entries(h, a, Len(h))

\* The entries that are not dicts, and the entries with every dict replaced
\* by a mark: the configuration as a value.
Leaves(h, a) == { e \in EntriesOf(h, a) : ~IsDict(e[2]) }
Shape(h, a) ==
    { <<e[1], IF IsDict(e[2]) THEN <<"dict">> ELSE e[2]>> : e \in EntriesOf(h, a) }

IsPrefix(p, q) == Len(p) <= Len(q) /\ SubSeq(q, 1, Len(p)) = p

ConfigStep(op) == steps' = steps + 1 /\ last'.op = op

\* C22: Config.get(key, default) follows the dot-separated segments of key
\* and returns the value stored at that path when every segment is
\* present, and default when a segment is missing or is looked up in a
\* value that is not a mapping; it does not modify the configuration.
C22_GetFollowsPath ==
    [][ConfigStep("get") =>
          /\ heap' = heap
          /\ \A e \in EntriesOf(heap, instances[last'.self]) :
                e[1] = last'.path => last'.ret = e[2]
          /\ (\A e \in EntriesOf(heap, instances[last'.self]) :
                e[1] # last'.path) => last'.ret = last'.default]_vars

C22_Witness ==
    /\ last # <<>>
    /\ last.op = "get"
    /\ last.path = <<<<"user">>, <<"pen">>, <<"color">>>>
    /\ last.default = Str(<<"fallback">>)
    /\ last.ret = Str(<<"blue">>)

\* C23: for any dot-notation key and value, after Config.set(key, value)
\* the call Config.get(key) returns value, the missing intermediate segments
\* have been created as nested mappings, and every entry that is not on the
\* key's path keeps its previous value.
C23_SetThenGet ==
    [][ConfigStep("set") =>
          /\ last'.raised = ""
          /\ get(heap', instances[last'.self], JoinDots(last'.path), None)
                = last'.value
          /\ \A n \in 1..(Len(last'.path) - 1) :
                <<SubSeq(last'.path, 1, n), <<"dict">>>>
                    \in Shape(heap', instances[last'.self])
          /\ \A e \in Shape(heap, instances[last'.self]) :
                ~IsPrefix(e[1], last'.path) /\ ~IsPrefix(last'.path, e[1])
                    => e \in Shape(heap', instances[last'.self])]_vars

\* The leaves of a Config made when no set has been called.
DefaultLeaves ==
    Leaves(load_default_config(ClassTables).heap,
           load_default_config(ClassTables).ret)

\* C24: Config instances are isolated from each other and from the class
\* tables: a set on one instance changes no value another instance gets, a
\* Config created later has the default values, and DEFAULT_MODELS,
\* DATASETS, IMAGE_DEFAULTS, DRAWING_DEFAULTS and VISUALIZATION_DEFAULTS are
\* unchanged.
C24_InstancesIsolated ==
    [][/\ ConfigStep("set") =>
             /\ \A j \in 1..Len(instances) :
                   j # last'.self =>
                      Leaves(heap', instances[j]) = Leaves(heap, instances[j])
             /\ SubSeq(heap', 1, Len(ClassTables)) = ClassTables
       /\ ConfigStep("Config") =>
             Leaves(heap', instances'[last'.self]) = DefaultLeaves]_vars

----------------------------------------------------------------------------
(* Vocabulary of the MathOCRModel properties *)

\* The entry of predict_batch for an image: its prediction, or "" if
\* predicting it raised.
EntryFor(image) == IF image.raises = "" THEN image.text ELSE <<>>

\* C25: predict_batch returns one entry per input image, in input order,
\* for every batch_size >= 1: entry j is the prediction for images[j], or
\* the empty string if predicting images[j] raised.
C25_OneEntryPerImage ==
    outcome # <<>> /\ outcome.op = "predict_batch" =>
        /\ outcome.raised = ""
        /\ Len(outcome.ret) = Len(images)
        /\ \A j \in 1..Len(images) : outcome.ret[j] = EntryFor(images[j])

C25_Witness ==
    /\ outcome # <<>>
    /\ outcome.op = "predict_batch"
    /\ Len(images) = 3
    /\ batch_size = 2
    /\ images[2].raises # ""
    /\ outcome.ret[1] # <<>>
    /\ outcome.ret[3] # <<>>
    /\ outcome.ret[3] # outcome.ret[1]

\* C26: evaluate_accuracy raises ValueError when test_images and
\* ground_truth differ in length, and for lists of equal length, zero
\* included, returns the metrics without raising: total_samples is the
\* length, exact_matches the number of positions whose stripped prediction
\* equals the stripped ground truth, both accuracies between 0 and 1.
C26_EvaluateAccuracy ==
    outcome # <<>> /\ outcome.op = "evaluate_accuracy" =>
        IF Len(images) # Len(ground_truth)
        THEN outcome.raised = "ValueError"
        ELSE /\ outcome.raised = ""
             /\ outcome.ret.total_samples = Len(images)
             /\ outcome.ret.exact_matches =
                   Cardinality({ j \in 1..Len(images) :
                       strip(EntryFor(images[j])) = strip(ground_truth[j]) })
             /\ ~Less(outcome.ret.exact_match_accuracy, FromInt(0))
             /\ ~Less(FromInt(1), outcome.ret.exact_match_accuracy)
             /\ ~Less(outcome.ret.character_accuracy, FromInt(0))
             /\ ~Less(FromInt(1), outcome.ret.character_accuracy)

----------------------------------------------------------------------------
(* Properties of DataDownloader *)

\* C27: a call with force_download = False returns the dataset path without
\* downloading only if an earlier call completed download and extraction;
\* a failed call leaves no state that makes a later call skip the download.
C27_SkipsOnlyAfterSuccess ==
    download.pc = "returned" /\ ~download.downloaded => completed

\* C28: whenever download_mathwriting_dataset ends, by returning the path
\* or by raising, the archive mathwriting-2024.tgz no longer exists.
C28_ArchiveRemoved ==
    download.pc \in {"returned", "raised"} => disk.archive = "absent"

----------------------------------------------------------------------------
(* Properties of the drawing pad *)

PenLifts(e) == e.type \in {"mouseup", "mouseout"}

\* The mousedown events that a later mouseup or mouseout has ended, and for
\* each the index of that event.
EndedDowns ==
    { i \in 1..Len(events) :
         /\ events[i].type = "mousedown"
         /\ \E j \in (i + 1)..Len(events) : PenLifts(events[j]) }
EndOf(i) ==
    CHOOSE j \in (i + 1)..Len(events) :
        /\ PenLifts(events[j])
        /\ \A k \in (i + 1)..(j - 1) : ~PenLifts(events[k])

\* The points captured from the mousedown at i up to the event that ends it.
PointsFrom(i) ==
    LET captured == SelectSeq(SubSeq(events, i, EndOf(i) - 1),
                              LAMBDA e : e.type \in {"mousedown", "mousemove"})
    IN  [k \in 1..Len(captured) |-> PointOf(captured[k])]

\* The ended mousedown events in order of arrival.
RECURSIVE InOrder(_)
InOrder(S) ==
    IF S = {} THEN <<>>
    ELSE LET i == CHOOSE m \in S : \A n \in S : m <= n
         IN  <<i>> \o InOrder(S \ {i})

\* C29: after any sequence of mousedown, mousemove, mouseup and mouseout
\* events, each mousedown contributes exactly one stroke to strokes, holding
\* in order the points captured from that mousedown up to the next mouseup
\* or mouseout; a mousemove while the pen is up adds no point and a mouseup
\* after a mouseout appends no second stroke.
C29_OneStrokePerMouseDown ==
    /\ Len(padStrokes) = Cardinality(EndedDowns)
    /\ \A n \in 1..Cardinality(EndedDowns) :
          n <= Len(padStrokes) =>
             padStrokes[n] = PointsFrom(InOrder(EndedDowns)[n])

====
